---- MODULE Spec2Model ----
(***************************************************************************)
(* A model of bluenumbers' advertisement-data parser                        *)
(* (src/src/bluenumbers/parser.py): framing of a byte buffer into AD       *)
(* structures, re-encoding, the per-type decoders and the packet           *)
(* accessors; of the refresh of the identifier registry                    *)
(* (src/src/bluenumbers/bluetooth_sig_loader.py) and of the registry's     *)
(* derivation of a full UUID (src/src/bluenumbers/models.py).              *)
(*                                                                         *)
(* Python values are modelled as follows.                                  *)
(*   bytes        a sequence of integers 0..255                            *)
(*   str          a sequence of one-character strings (UUID strings), or   *)
(*                the sequence of code points of a decoded text            *)
(*   int (wide)   a numeral: its hexadecimal digits (0..15), most          *)
(*                significant first, no leading zero; 0 is << >>           *)
(*   a call       an outcome: Value(v), PyNone or Raise(exception)         *)
(***************************************************************************)
EXTENDS Integers, Sequences, FiniteSets, TLC

VARIABLES data, packet, origin, ret, arg_type, arg_value,
          arg_short, arg_bits, heap, bindings, refresh, reader, frame

other_vars == <<arg_short, arg_bits, heap, bindings, refresh, reader, frame>>

vars == <<data, packet, origin, ret, arg_type, arg_value, other_vars>>

----------------------------------------------------------------------------
(* Bounds of the model. *)

MaxBufLen == 5
MaxStructs == 2
MaxValueLen == 4

----------------------------------------------------------------------------
(* Python building blocks. *)

Min(a, b) == IF a < b THEN a ELSE b

Max(a, b) == IF a > b THEN a ELSE b

\* s[a:b] for 0 <= a, 0 <= b: clamped to the sequence, never an error.
PySlice(s, a, b) ==
  LET lo == Min(a, Len(s))
      hi == Min(b, Len(s))
  IN  [i \in 1..Max(0, hi - lo) |-> s[lo + i]]

\* s[a:]
PySliceFrom(s, a) == PySlice(s, a, Len(s))

RECURSIVE Flatten(_)
Flatten(ss) == IF ss = <<>> THEN <<>> ELSE Head(ss) \o Flatten(Tail(ss))

Value(v) == [kind |-> "value", val |-> v, exc |-> ""]

PyNone == [kind |-> "none", val |-> <<>>, exc |-> ""]

Raise(e) == [kind |-> "raise", val |-> <<>>, exc |-> e]

IsByte(n) == n \in 0..255

----------------------------------------------------------------------------
(* AdStruct and AdPacket: construction, framing and re-encoding. *)

AdStruct(length, ad_type, value) ==
  [length |-> length, ad_type |-> ad_type, value |-> value]

AdPacket(ad_structs) == [ad_structs |-> ad_structs]

\* The packet variable before any packet exists (origin = "none").
NoPacket == AdPacket(<<>>)

\* The encoding with the type byte written before the length byte.
AdStruct_bytes_swapped(s) ==
  IF IsByte(s.length) /\ IsByte(s.ad_type)
  THEN Value(<<s.ad_type, s.length>> \o s.value)
  ELSE Raise("ValueError")

\* The encoding with the length byte derived from the value.
AdStruct_bytes_recomputed(s) ==
  IF IsByte(1 + Len(s.value)) /\ IsByte(s.ad_type)
  THEN Value(<<1 + Len(s.value), s.ad_type>> \o s.value)
  ELSE Raise("ValueError")

\* bytes([self.length, self.ad_type]) + self.value
AdStruct_bytes(s) ==
  IF IsByte(s.length) /\ IsByte(s.ad_type)
  THEN Value(<<s.length, s.ad_type>> \o s.value)
  ELSE Raise("ValueError")

\* b"".join(bytes(ad_struct) for ad_struct in self.ad_structs)
AdPacket_bytes(p) ==
  LET parts == [i \in 1..Len(p.ad_structs) |-> AdStruct_bytes(p.ad_structs[i])]
  IN  IF \E i \in 1..Len(parts) : parts[i].kind = "raise"
      THEN Raise("ValueError")
      ELSE Value(Flatten([i \in 1..Len(parts) |-> parts[i].val]))

\* The generator: what it yields, and the exception that ends it, if any.
RECURSIVE iterate_ad_structures(_)
iterate_ad_structures(d) ==
  IF d = <<>> THEN [yielded |-> <<>>, exc |-> ""]
  ELSE LET length == d[1] IN
    IF length = 0 THEN [yielded |-> <<>>, exc |-> ""]
    ELSE IF Len(d) < 2 THEN [yielded |-> <<>>, exc |-> "IndexError"]
    ELSE LET s == AdStruct(length, d[2], PySlice(d, 2, length + 1))
             r == iterate_ad_structures(PySliceFrom(d, length + 1))
         IN  [yielded |-> <<s>> \o r.yielded, exc |-> r.exc]

\* The generator with a zero length byte skipped as padding, not final.
RECURSIVE iterate_skipping_zero(_)
iterate_skipping_zero(d) ==
  IF d = <<>> THEN [yielded |-> <<>>, exc |-> ""]
  ELSE LET length == d[1] IN
    IF length = 0 THEN iterate_skipping_zero(PySliceFrom(d, 1))
    ELSE IF Len(d) < 2 THEN [yielded |-> <<>>, exc |-> "IndexError"]
    ELSE LET s == AdStruct(length, d[2], PySlice(d, 2, length + 1))
             r == iterate_skipping_zero(PySliceFrom(d, length + 1))
         IN  [yielded |-> <<s>> \o r.yielded, exc |-> r.exc]

from_bytes_skipping_zero(d) ==
  LET r == iterate_skipping_zero(d)
  IN  IF r.exc # "" THEN Raise(r.exc) ELSE Value(AdPacket(r.yielded))

\* The generator with the value sliced one byte short, data[2 : length].
RECURSIVE iterate_short_value(_)
iterate_short_value(d) ==
  IF d = <<>> THEN [yielded |-> <<>>, exc |-> ""]
  ELSE LET length == d[1] IN
    IF length = 0 THEN [yielded |-> <<>>, exc |-> ""]
    ELSE IF Len(d) < 2 THEN [yielded |-> <<>>, exc |-> "IndexError"]
    ELSE LET s == AdStruct(length, d[2], PySlice(d, 2, length))
             r == iterate_short_value(PySliceFrom(d, length + 1))
         IN  [yielded |-> <<s>> \o r.yielded, exc |-> r.exc]

from_bytes_short_value(d) ==
  LET r == iterate_short_value(d)
  IN  IF r.exc # "" THEN Raise(r.exc) ELSE Value(AdPacket(r.yielded))

\* The framing with every name structure decoded as it is built: a byte
\* that no UTF-8 text holds (0xC0, 0xC1, 0xF5..0xFF) raises.
from_bytes_decoding_names(d) ==
  LET r == iterate_ad_structures(d)
  IN  IF r.exc # "" THEN Raise(r.exc)
      ELSE IF \E i \in 1..Len(r.yielded) :
                /\ r.yielded[i].ad_type \in {8, 9}
                /\ \E k \in 1..Len(r.yielded[i].value) :
                     r.yielded[i].value[k] \in {192, 193} \cup (245..255)
      THEN Raise("UnicodeDecodeError")
      ELSE Value(AdPacket(r.yielded))

\* The framing with the length of every structure set to what its value
\* holds.
from_bytes_length_corrected(d) ==
  LET r == iterate_ad_structures(d)
  IN  IF r.exc # "" THEN Raise(r.exc)
      ELSE Value(AdPacket([i \in 1..Len(r.yielded) |->
             AdStruct(1 + Len(r.yielded[i].value), r.yielded[i].ad_type,
                      r.yielded[i].value)]))

\* The bytes the generator goes on with after a structure,
\* data[length + 1 :]; and the same with the last byte of the structure
\* read again.
remaining_from_length(d, length) == PySliceFrom(d, length)

remaining(d, length) == PySliceFrom(d, length + 1)

\* cls(ad_structs=list(iterate_ad_structures(data)))
from_bytes(d) ==
  LET r == iterate_ad_structures(d)
  IN  IF r.exc # "" THEN Raise(r.exc) ELSE Value(AdPacket(r.yielded))

----------------------------------------------------------------------------
(* The AD type codes and the UUID expander.                                *)

\* The values of the members of class AdType: 0x01-0x0A, 0x0D-0x12,
\* 0x14-0x32, 0x34, 0x3D and 0xFF.
AdTypeValues == (1..10) \cup (13..18) \cup (20..50) \cup {52, 61, 255}

HexUpper ==
  <<"0", "1", "2", "3", "4", "5", "6", "7", "8", "9", "A", "B", "C", "D", "E", "F">>

HexLower ==
  <<"0", "1", "2", "3", "4", "5", "6", "7", "8", "9", "a", "b", "c", "d", "e", "f">>

\* The value of one hexadecimal character, in either case.
HexVal(c) == CHOOSE v \in 0..15 : HexUpper[v + 1] = c \/ HexLower[v + 1] = c

RECURSIVE StripZeros(_)
StripZeros(n) ==
  IF n # <<>> /\ Head(n) = 0 THEN StripZeros(Tail(n)) ELSE n

\* int.from_bytes(b, "little"): the last byte is the most significant.
int_from_bytes_big(b) ==
  StripZeros(Flatten([i \in 1..Len(b) |-> <<b[i] \div 16, b[i] % 16>>]))

int_from_bytes_little(b) ==
  StripZeros(Flatten([i \in 1..Len(b) |->
    <<b[Len(b) + 1 - i] \div 16, b[Len(b) + 1 - i] % 16>>]))

\* A numeral that fits a machine integer, as that integer.
RECURSIVE ToNat(_)
ToNat(n) ==
  IF n = <<>> THEN 0 ELSE 16 * ToNat(SubSeq(n, 1, Len(n) - 1)) + n[Len(n)]

\* f"{n:0<width>X}": upper-case digits, zero-padded to at least width.
format_X(n, width) ==
  LET digits == IF n = <<>> THEN <<0>> ELSE n
  IN  [i \in 1..Max(0, width - Len(digits)) |-> "0"]
        \o [i \in 1..Len(digits) |-> HexUpper[digits[i] + 1]]

\* "00000000-0000-1000-8000-00805F9B34FB"
base_uuid ==
  <<"0", "0", "0", "0", "0", "0", "0", "0", "-", "0", "0", "0", "0", "-",
    "1", "0", "0", "0", "-", "8", "0", "0", "0", "-",
    "0", "0", "8", "0", "5", "F", "9", "B", "3", "4", "F", "B">>

\* UUID(hex): the dashes removed, 32 hexadecimal digits read as an integer.
UUID_from_hex(s) ==
  LET hex == SelectSeq(s, LAMBDA c : c # "-")
  IN  IF Len(hex) # 32 THEN Raise("ValueError")
      ELSE Value([int |-> StripZeros([i \in 1..32 |-> HexVal(hex[i])])])

\* UUID(int=n): 0 <= n < 2^128.
UUID_from_int(n) ==
  IF Len(n) > 32 THEN Raise("ValueError") ELSE Value([int |-> n])

\* str(uuid): 32 lower-case digits, grouped 8-4-4-4-12.
UUID_str(u) ==
  LET hex == [i \in 1..32 |->
                IF i <= 32 - Len(u.int) THEN "0"
                ELSE HexLower[u.int[i - (32 - Len(u.int))] + 1]]
  IN  SubSeq(hex, 1, 8) \o <<"-">> \o SubSeq(hex, 9, 12) \o <<"-">>
        \o SubSeq(hex, 13, 16) \o <<"-">> \o SubSeq(hex, 17, 20) \o <<"-">>
        \o SubSeq(hex, 21, 32)

\* The expander with the short value written into the wrong half of the
\* first group.
get_full_uuid_low_half(short_uuid, bit_length) ==
  IF bit_length = 16
  THEN UUID_from_hex(format_X(short_uuid, 4) \o PySlice(base_uuid, 0, 4)
                       \o <<"-">> \o PySliceFrom(base_uuid, 9))
  ELSE IF bit_length = 32
  THEN UUID_from_hex(format_X(short_uuid, 8) \o PySliceFrom(base_uuid, 8))
  ELSE IF bit_length = 128 THEN UUID_from_int(short_uuid)
  ELSE Raise("ValueError")

get_full_uuid(short_uuid, bit_length) ==
  IF bit_length = 16
  THEN UUID_from_hex(PySlice(base_uuid, 0, 4) \o format_X(short_uuid, 4)
                       \o <<"-">> \o PySliceFrom(base_uuid, 9))
  ELSE IF bit_length = 32
  THEN UUID_from_hex(format_X(short_uuid, 8) \o PySliceFrom(base_uuid, 8))
  ELSE IF bit_length = 128 THEN UUID_from_int(short_uuid)
  ELSE Raise("ValueError")

\* uuid.bytes: the 16 bytes of the integer, most significant first.
UUID_bytes(u) ==
  LET hex == [i \in 1..32 |->
                IF i <= 32 - Len(u.int) THEN 0 ELSE u.int[i - (32 - Len(u.int))]]
  IN  [i \in 1..16 |-> 16 * hex[2 * i - 1] + hex[2 * i]]

\* UUID(bytes=b)
UUID_from_bytes(b) ==
  IF Len(b) # 16 THEN Raise("ValueError")
  ELSE Value([int |-> int_from_bytes_big(b)])

\* n.to_bytes(length, "little")
int_to_bytes_little(n, length) ==
  IF Len(n) > 2 * length THEN Raise("OverflowError")
  ELSE LET hex == [i \in 1..(2 * length) |->
                     IF i <= 2 * length - Len(n) THEN 0
                     ELSE n[i - (2 * length - Len(n))]]
       IN  Value([i \in 1..length |->
                    16 * hex[2 * (length - i) + 1] + hex[2 * (length - i) + 2]])

\* UUID("00000000-0000-1000-8000-00805F9B34FB")
BLUETOOTH_SIG_UUID_BASE == UUID_from_hex(base_uuid).val

\* get_full_uuid(short_uuid) of models.py and bluetooth_sig_loader.py:
\* UUID(bytes=base_bytes[:12] + short_bytes + base_bytes[14:])
registry_get_full_uuid(short_uuid) ==
  LET base_bytes == UUID_bytes(BLUETOOTH_SIG_UUID_BASE)
      short_bytes == int_to_bytes_little(short_uuid, 2)
  IN  IF short_bytes.kind = "raise" THEN short_bytes
      ELSE UUID_from_bytes(PySlice(base_bytes, 0, 12) \o short_bytes.val
                             \o PySliceFrom(base_bytes, 14))

----------------------------------------------------------------------------
(* The type-specific decoders.                                             *)

\* The first exception among outcomes, else the sequence of their values.
Gather(outs) ==
  IF \E i \in 1..Len(outs) : outs[i].kind = "raise"
  THEN LET i == CHOOSE j \in 1..Len(outs) :
                  /\ outs[j].kind = "raise"
                  /\ \A k \in 1..(j - 1) : outs[k].kind # "raise"
       IN  Raise(outs[i].exc)
  ELSE Value([i \in 1..Len(outs) |-> outs[i].val])

\* The members of Flags, by bit number 0..4.
FlagNames ==
  << "LE_LIMITED_DISCOVERABLE_MODE",
     "LE_GENERAL_DISCOVERABLE_MODE",
     "BR_EDR_NOT_SUPPORTED",
     "SIMULTANEOUS_LE_AND_BR_EDR_TO_SAME_DEVICE_CAPABLE_CONTROLLER",
     "SIMULTANEOUS_LE_AND_BR_EDR_TO_SAME_DEVICE_CAPABLE_HOST" >>

\* Bit k of a numeral.
numeral_bit(n, k) ==
  /\ k \div 4 < Len(n)
  /\ (n[Len(n) - (k \div 4)] \div (2 ^ (k % 4))) % 2 = 1

\* Flags.<name> in f
Flags_contains(f, flag_name) ==
  \E i \in 1..Len(FlagNames) :
    FlagNames[i] = flag_name /\ numeral_bit(f.flags, i - 1)

\* The flags decoder with the bits that no member names cleared.
decode_flags_named_only(value) ==
  Value([flags |->
    StripZeros(IF value = <<>> THEN <<>>
               ELSE <<(value[1] \div 16) % 2, value[1] % 16>>)])

\* decode_flags: Flags(int.from_bytes(value, "little")); an IntFlag keeps
\* the bits that no member names.
decode_flags(value) == Value([flags |-> int_from_bytes_little(value)])

UuidList16 == {2, 3, 20}

UuidList32 == {4, 5, 31}

UuidList128 == {6, 7, 21}

UuidListTypes == UuidList16 \cup UuidList32 \cup UuidList128

\* The uuid_length table of decode_uuid_list.
uuid_list_length(ad_type) ==
  IF ad_type \in UuidList16 THEN 16
  ELSE IF ad_type \in UuidList32 THEN 32
  ELSE 128

\* range(0, len(value), step) as a sequence.
PyRange(n, step) == [k \in 1..((n + step - 1) \div step) |-> (k - 1) * step]

\* One element of the list: str(get_full_uuid(int.from_bytes(chunk), w)).
uuid_list_item(chunk, w) ==
  LET u == get_full_uuid(int_from_bytes_little(chunk), w)
  IN  IF u.kind = "raise" THEN u ELSE Value(UUID_str(u.val))

\* The list decoder with the chunks read most significant byte first.
decode_uuid_list_big_endian(ad_type, value) ==
  IF ad_type \notin UuidListTypes THEN Raise("KeyError")
  ELSE LET w == uuid_list_length(ad_type)
           starts == PyRange(Len(value), w \div 8)
       IN  Gather([k \in 1..Len(starts) |->
             LET u == get_full_uuid(
                        int_from_bytes_big(
                          PySlice(value, starts[k], starts[k] + w \div 8)), w)
             IN  IF u.kind = "raise" THEN u ELSE Value(UUID_str(u.val))])

decode_uuid_list(ad_type, value) ==
  IF ad_type \notin UuidListTypes THEN Raise("KeyError")
  ELSE LET w == uuid_list_length(ad_type)
           starts == PyRange(Len(value), w \div 8)
       IN  Gather([k \in 1..Len(starts) |->
             uuid_list_item(PySlice(value, starts[k], starts[k] + w \div 8), w)])

ServiceDataTypes == {22, 32, 33}

\* The uuid_length table of decode_service_data.
service_data_length(ad_type) ==
  IF ad_type = 22 THEN 16 ELSE IF ad_type = 32 THEN 32 ELSE 128

\* The service-data decoder with the UUID bytes left in the data.
decode_service_data_whole_value(ad_type, value) ==
  IF ad_type \notin ServiceDataTypes THEN Raise("KeyError")
  ELSE LET w == service_data_length(ad_type)
           u == get_full_uuid(int_from_bytes_little(PySlice(value, 0, w \div 8)), w)
       IN  IF u.kind = "raise" THEN u
           ELSE Value([uuid |-> UUID_str(u.val), data |-> value])

decode_service_data(ad_type, value) ==
  IF ad_type \notin ServiceDataTypes THEN Raise("KeyError")
  ELSE LET w == service_data_length(ad_type)
           u == get_full_uuid(int_from_bytes_little(PySlice(value, 0, w \div 8)), w)
       IN  IF u.kind = "raise" THEN u
           ELSE Value([uuid |-> UUID_str(u.val),
                       data |-> PySliceFrom(value, w \div 8)])

decode_manufacturer_data(value) ==
  Value([company_identifier |-> ToNat(int_from_bytes_little(PySlice(value, 0, 2))),
         data |-> PySliceFrom(value, 2)])

\* value.decode("utf-8"), strict: the code points of the text, or
\* UnicodeDecodeError.
RECURSIVE decode_str(_)
decode_str(value) ==
  IF value = <<>> THEN Value(<<>>)
  ELSE
    LET b1 == value[1]
        Cont(i) == i <= Len(value) /\ value[i] \in 128..191
        Then(cp, k) ==
          LET r == decode_str(PySliceFrom(value, k))
          IN  IF r.kind = "raise" THEN r ELSE Value(<<cp>> \o r.val)
    IN  IF b1 < 128 THEN Then(b1, 1)
        ELSE IF b1 \in 194..223 /\ Cont(2)
        THEN Then((b1 - 192) * 64 + (value[2] - 128), 2)
        ELSE IF /\ b1 \in 224..239 /\ Cont(2) /\ Cont(3)
                /\ (b1 = 224 => value[2] >= 160)
                /\ (b1 = 237 => value[2] <= 159)
        THEN Then((b1 - 224) * 4096 + (value[2] - 128) * 64 + (value[3] - 128), 3)
        ELSE IF /\ b1 \in 240..244 /\ Cont(2) /\ Cont(3) /\ Cont(4)
                /\ (b1 = 240 => value[2] >= 144)
                /\ (b1 = 244 => value[2] <= 143)
        THEN Then((b1 - 240) * 262144 + (value[2] - 128) * 4096
                    + (value[3] - 128) * 64 + (value[4] - 128), 4)
        ELSE Raise("UnicodeDecodeError")

\* `case AdType.SHORTENED_LOCAL_NAME, AdType.COMPLETE_LOCAL_NAME, AdType.URI:`
\* is a sequence pattern: it matches a subject that is a sequence of three
\* elements equal to the three members.  The subject of the match is
\* AdType(ad_type), an int, which no sequence pattern matches.
matches_name_uri_case(ad_type) == FALSE

\* The dispatcher with no membership test before AdType(ad_type), which
\* raises ValueError for a code that is no member.
decode_ad_struct_unchecked(ad_type, value) ==
  IF ad_type \notin AdTypeValues THEN Raise("ValueError")
  ELSE IF ad_type = 1 THEN decode_flags(value)
  ELSE IF ad_type \in UuidListTypes THEN decode_uuid_list(ad_type, value)
  ELSE IF ad_type \in ServiceDataTypes THEN decode_service_data(ad_type, value)
  ELSE IF ad_type = 255 THEN decode_manufacturer_data(value)
  ELSE IF matches_name_uri_case(ad_type) THEN decode_str(value)
  ELSE PyNone

decode_ad_struct(ad_type, value) ==
  IF ad_type \notin AdTypeValues THEN PyNone
  ELSE IF ad_type = 1 THEN decode_flags(value)
  ELSE IF ad_type \in UuidListTypes THEN decode_uuid_list(ad_type, value)
  ELSE IF ad_type \in ServiceDataTypes THEN decode_service_data(ad_type, value)
  ELSE IF ad_type = 255 THEN decode_manufacturer_data(value)
  ELSE IF matches_name_uri_case(ad_type) THEN decode_str(value)
  ELSE PyNone

\* AdStruct.decoded
decoded(s) == decode_ad_struct(s.ad_type, s.value)

----------------------------------------------------------------------------
(* The accessors of AdPacket.                                              *)

\* get returning the last structure of the type.
get_last(p, ad_type) ==
  IF \E i \in 1..Len(p.ad_structs) : p.ad_structs[i].ad_type = ad_type
  THEN LET i == CHOOSE j \in 1..Len(p.ad_structs) :
                  /\ p.ad_structs[j].ad_type = ad_type
                  /\ \A k \in (j + 1)..Len(p.ad_structs) :
                       p.ad_structs[k].ad_type # ad_type
       IN  Value(p.ad_structs[i])
  ELSE PyNone

get(p, ad_type) ==
  IF \E i \in 1..Len(p.ad_structs) : p.ad_structs[i].ad_type = ad_type
  THEN LET i == CHOOSE j \in 1..Len(p.ad_structs) :
                  /\ p.ad_structs[j].ad_type = ad_type
                  /\ \A k \in 1..(j - 1) : p.ad_structs[k].ad_type # ad_type
       IN  Value(p.ad_structs[i])
  ELSE PyNone

get_all(p, ad_type) == SelectSeq(p.ad_structs, LAMBDA s : s.ad_type = ad_type)

\* self.get(COMPLETE_LOCAL_NAME) or self.get(SHORTENED_LOCAL_NAME)
name(p) ==
  LET complete == get(p, 9)
      name_struct == IF complete.kind = "value" THEN complete ELSE get(p, 8)
  IN  IF name_struct.kind = "none" THEN PyNone ELSE decoded(name_struct.val)

\* manufacturer_id reading the last manufacturer structure of the packet.
manufacturer_id_of_last(p) ==
  LET found == get_all(p, 255)
  IN  IF found = <<>> THEN PyNone
      ELSE Value(decoded(found[Len(found)]).val.company_identifier)

manufacturer_id(p) ==
  LET manufacturer_data_struct == get(p, 255)
  IN  IF manufacturer_data_struct.kind = "none" THEN PyNone
      ELSE Value(decoded(manufacturer_data_struct.val).val.company_identifier)

\* The order in which uuids walks the UUID-list types and the service-data
\* types.
UuidListOrder == <<2, 3, 4, 5, 6, 7, 20, 31, 21>>

ServiceDataOrder == <<22, 32, 33>>

\* uuids.extend([UUID(s) for s in ad_struct.decoded])
list_uuids(s) ==
  LET d == decoded(s)
  IN  IF d.kind = "raise" THEN d
      ELSE Gather([i \in 1..Len(d.val) |-> UUID_from_hex(d.val[i])])

\* uuids.append(UUID(ad_struct.decoded.uuid))
service_uuid(s) ==
  LET d == decoded(s)
  IN  IF d.kind = "raise" THEN d
      ELSE Gather(<<UUID_from_hex(d.val.uuid)>>)

\* The outcomes of one inner loop, for ad_struct in self.get_all(ad_type),
\* joined: the first exception, else the UUIDs in order.
Joined(outs) ==
  LET g == Gather(outs)
  IN  IF g.kind = "raise" THEN g ELSE Value(Flatten(g.val))

\* The first loop: for ad_type in (the list types): for ad_struct in
\* self.get_all(ad_type): uuids.extend(...)
list_loop(p) ==
  Joined([k \in 1..Len(UuidListOrder) |->
    LET found == get_all(p, UuidListOrder[k])
    IN  Joined([j \in 1..Len(found) |-> list_uuids(found[j])])])

\* The second loop: for ad_type in (the service-data types): for ad_struct
\* in self.get_all(ad_type): uuids.append(...)
service_loop(p) ==
  Joined([k \in 1..Len(ServiceDataOrder) |->
    LET found == get_all(p, ServiceDataOrder[k])
    IN  Joined([j \in 1..Len(found) |-> service_uuid(found[j])])])

RECURSIVE Dedup(_)
Dedup(s) ==
  IF s = <<>> THEN <<>>
  ELSE LET init == Dedup(SubSeq(s, 1, Len(s) - 1))
       IN  IF \E i \in 1..Len(init) : init[i] = s[Len(s)]
           THEN init ELSE Append(init, s[Len(s)])

uuids_body(p) ==
  LET lists == list_loop(p)
      services == service_loop(p)
  IN  IF lists.kind = "raise" THEN lists
      ELSE IF services.kind = "raise" THEN services
      ELSE Value(lists.val \o services.val)

\* The accessor with a UUID that occurs twice kept once.
uuids_deduplicated(p) ==
  LET r == uuids_body(p)
  IN  IF r.kind = "raise" THEN r ELSE Value(Dedup(r.val))

uuids(p) == uuids_body(p)

----------------------------------------------------------------------------
(* Inputs. *)

RawBytes == {0, 1, 2, 9}

SeqsUpTo(S, n) == UNION {[1..k -> S] : k \in 0..n}

RawBuffers == SeqsUpTo(RawBytes, MaxBufLen)

\* The buffers of tests/test_parser.py (name, uuids, get, truncated name and
\* manufacturer data).
TestBuffers ==
  { <<2, 1, 6, 12, 9, 84, 101, 115, 116, 32, 68, 101, 118, 105, 99, 101,
      3, 3, 170, 187>>,
    <<5, 3, 170, 187, 204, 221, 5, 5, 170, 187, 204, 221, 5, 22, 17, 34, 51, 68>>,
    <<2, 1, 6, 11, 9, 84, 101, 115, 116, 32, 68, 101, 118, 105, 99, 101>>,
    <<0, 1, 2>>,
    <<5, 255, 52, 18, 1, 2>> }

\* Buffers with a name whose value is no UTF-8 text (0xFF; a lead byte with
\* no continuation byte) beside a flags structure.
MalformedBuffers ==
  { <<2, 9, 255, 2, 1, 6>>,
    <<2, 1, 5, 3, 8, 195, 65>> }

ReceivedBuffers == RawBuffers \cup TestBuffers \cup MalformedBuffers

\* The first 16 bytes of a 128-bit UUID, a, a+1, ...
Ramp(a) == [i \in 1..16 |-> (a + i - 1) % 256]

\* A structure built with a length that matches its value.
Built(t, v) == AdStruct(1 + Len(v), t, v)

\* Structures a caller constructs directly: names (valid and invalid UTF-8),
\* UUID lists, service data, manufacturer data (one with a single byte of
\* value), flags, a type with no
\* decoder, a length that does not match the value (tests, TestAdStruct)
\* and a type code that is no byte (tests, test_decode_unknown_type).
StructPool ==
  { Built(9, <<65>>), Built(8, <<195, 169>>), Built(9, <<255>>),
    Built(3, <<170, 187, 204, 221>>), Built(2, <<204, 221>>),
    Built(5, <<170, 187, 204, 221>>), Built(7, Ramp(0)),
    Built(22, <<17, 34, 51>>), Built(33, Ramp(240) \o <<1>>),
    Built(255, <<52, 18, 1>>), Built(255, <<1, 0>>), Built(255, <<7>>),
    Built(1, <<6>>), Built(10, <<0>>),
    AdStruct(5, 1, <<7>>), Built(999, <<1, 2, 3>>) }

\* Arguments of the decoders: every UUID-list and service-data type, flags,
\* the three text types, manufacturer data, a member with no decoder
\* (TX power level, 0x0A) and two codes that are no member (0x0B and 999).
DecodeTypes ==
  UuidListTypes \cup ServiceDataTypes \cup {1, 8, 9, 36, 255, 10, 11, 999}

\* 0x00, "A", and the bytes of a two-byte UTF-8 character, which are not
\* valid UTF-8 alone or in the other order.
ValueBytes == {0, 65, 195, 169}

LongValues ==
  {Ramp(0), Ramp(240), Ramp(0) \o Ramp(240), Ramp(0) \o <<170>>}

\* Flags payloads: 0x06 (tests, test_from_bytes), LE limited with BR/EDR not
\* supported, all five flags, all eight bits, and a two-byte payload.
FlagValues == {<<6>>, <<5>>, <<31>>, <<255>>, <<31, 1>>}

DecodeValues ==
  SeqsUpTo(ValueBytes, MaxValueLen) \cup LongValues \cup FlagValues

\* AD types a caller asks a packet for: flags, a UUID list, the complete
\* name, TX power level, service data and manufacturer data.
QueryTypes == {1, 3, 9, 10, 22, 255}

ConstructedPackets == {AdPacket(ss) : ss \in SeqsUpTo(StructPool, MaxStructs)}

----------------------------------------------------------------------------
(* The state machine of a caller of the packet codec. *)

NoRet == [op |-> "", out |-> PyNone]

\* No call of the UUID expander is under way.
NoUuidCall == arg_short = <<>> /\ arg_bits = 0

\* No generator of from_bytes is being stepped through.
NoFraming == frame = <<>>

\* The registry module is not loaded.
NoRegistry ==
  /\ heap = <<>>
  /\ bindings = <<>>
  /\ refresh = <<>>
  /\ reader = <<>>

\* A caller holds a received advertisement buffer that it has not parsed yet.
InitReceived ==
  /\ data \in ReceivedBuffers
  /\ packet = NoPacket
  /\ origin = "none"
  /\ ret = NoRet
  /\ arg_type = 0
  /\ arg_value = <<>>
  /\ NoUuidCall
  /\ NoRegistry
  /\ NoFraming

\* A caller has constructed a packet from explicit fields.
InitConstructed ==
  /\ data = <<>>
  /\ packet \in ConstructedPackets
  /\ origin = "constructed"
  /\ ret = NoRet
  /\ arg_type = 0
  /\ arg_value = <<>>
  /\ NoUuidCall
  /\ NoRegistry
  /\ NoFraming

Init == InitReceived \/ InitConstructed

HasPacket == origin # "none"

\* packet = AdPacket.from_bytes(data)
FromBytes ==
  /\ origin = "none"
  /\ ret = NoRet
  /\ LET out == from_bytes(data) IN
       /\ packet' = IF out.kind = "value" THEN out.val ELSE NoPacket
       /\ origin' = IF out.kind = "value" THEN "from_bytes" ELSE "none"
       /\ ret' = [op |-> "from_bytes", out |-> out]
  /\ UNCHANGED <<data, arg_type, arg_value, other_vars>>

\* bytes(packet)
Bytes ==
  /\ HasPacket
  /\ ret' = [op |-> "bytes", out |-> AdPacket_bytes(packet)]
  /\ UNCHANGED <<data, packet, origin, arg_type, arg_value, other_vars>>

\* AdPacket.from_bytes(bytes(packet))
Reparse ==
  /\ HasPacket
  /\ LET b == AdPacket_bytes(packet) IN
       ret' = [op |-> "reparse",
               out |-> IF b.kind = "raise" THEN b ELSE from_bytes(b.val)]
  /\ UNCHANGED <<data, packet, origin, arg_type, arg_value, other_vars>>

\* packet.name
Name ==
  /\ HasPacket
  /\ ret' = [op |-> "name", out |-> name(packet)]
  /\ UNCHANGED <<data, packet, origin, arg_type, arg_value, other_vars>>

\* packet.uuids
Uuids ==
  /\ HasPacket
  /\ ret' = [op |-> "uuids", out |-> uuids(packet)]
  /\ UNCHANGED <<data, packet, origin, arg_type, arg_value, other_vars>>

\* packet.manufacturer_id
ManufacturerId ==
  /\ HasPacket
  /\ ret' = [op |-> "manufacturer_id", out |-> manufacturer_id(packet)]
  /\ UNCHANGED <<data, packet, origin, arg_type, arg_value, other_vars>>

\* packet.get(t)
Get(t) ==
  /\ HasPacket
  /\ ret' = [op |-> "get", arg |-> t, out |-> get(packet, t)]
  /\ UNCHANGED <<data, packet, origin, arg_type, arg_value, other_vars>>

\* packet.get_all(t)
GetAll(t) ==
  /\ HasPacket
  /\ ret' = [op |-> "get_all", arg |-> t, out |-> Value(get_all(packet, t))]
  /\ UNCHANGED <<data, packet, origin, arg_type, arg_value, other_vars>>

\* bytes(packet.ad_structs[i])
StructBytes(i) ==
  /\ HasPacket
  /\ ret' = [op |-> "struct_bytes", arg |-> i,
             out |-> AdStruct_bytes(packet.ad_structs[i])]
  /\ UNCHANGED <<data, packet, origin, arg_type, arg_value, other_vars>>

\* packet.ad_structs[i].decoded
Decoded(i) ==
  /\ HasPacket
  /\ ret' = [op |-> "decoded", arg |-> i, out |-> decoded(packet.ad_structs[i])]
  /\ UNCHANGED <<data, packet, origin, arg_type, arg_value, other_vars>>

Next ==
  \/ FromBytes
  \/ Bytes
  \/ Reparse
  \/ Name
  \/ Uuids
  \/ ManufacturerId
  \/ \E t \in QueryTypes : Get(t)
  \/ \E t \in QueryTypes : GetAll(t)
  \/ \E i \in 1..Len(packet.ad_structs) : StructBytes(i)
  \/ \E i \in 1..Len(packet.ad_structs) : Decoded(i)

Spec == Init /\ [][Next]_vars

----------------------------------------------------------------------------
(* The state machine of a caller of the decoders: the arguments are drawn  *)
(* at the start and each action is one call.                               *)

InitDecode ==
  /\ data = <<>>
  /\ packet = NoPacket
  /\ origin = "none"
  /\ ret = NoRet
  /\ arg_type \in DecodeTypes
  /\ arg_value \in DecodeValues
  /\ NoUuidCall
  /\ NoRegistry
  /\ NoFraming

\* decode_ad_struct(arg_type, arg_value)
DecodeAdStruct ==
  /\ ret' = [op |-> "decode_ad_struct", out |-> decode_ad_struct(arg_type, arg_value)]
  /\ UNCHANGED <<data, packet, origin, arg_type, arg_value, other_vars>>

\* decode_uuid_list(arg_type, arg_value), arg_type one of the types its
\* signature allows.
DecodeUuidList ==
  /\ arg_type \in UuidListTypes
  /\ ret' = [op |-> "decode_uuid_list", out |-> decode_uuid_list(arg_type, arg_value)]
  /\ UNCHANGED <<data, packet, origin, arg_type, arg_value, other_vars>>

\* decode_str(arg_value)
DecodeStr ==
  /\ ret' = [op |-> "decode_str", out |-> decode_str(arg_value)]
  /\ UNCHANGED <<data, packet, origin, arg_type, arg_value, other_vars>>

\* decode_service_data(arg_type, arg_value), arg_type one of the types its
\* signature allows.
DecodeServiceData ==
  /\ arg_type \in ServiceDataTypes
  /\ ret' = [op |-> "decode_service_data",
             out |-> decode_service_data(arg_type, arg_value)]
  /\ UNCHANGED <<data, packet, origin, arg_type, arg_value, other_vars>>

\* decode_flags(arg_value)
DecodeFlags ==
  /\ ret' = [op |-> "decode_flags", out |-> decode_flags(arg_value)]
  /\ UNCHANGED <<data, packet, origin, arg_type, arg_value, other_vars>>

NextDecode ==
  \/ DecodeAdStruct
  \/ DecodeUuidList
  \/ DecodeStr
  \/ DecodeServiceData
  \/ DecodeFlags

SpecDecode == InitDecode /\ [][NextDecode]_vars

----------------------------------------------------------------------------
(* The state machine of a caller of the UUID expander: get_full_uuid is    *)
(* called once with the arguments drawn at the start.                      *)

MaxShortDigits == 4

\* Hexadecimal digits the short values are made of.
ShortDigits == {0, 1, 10, 15}

\* 0x0000ABCD as a 32-bit value is below 2^16; 0x12345678 is not.
WideShorts == {<<1, 2, 3, 4, 5, 6, 7, 8>>, <<15, 15, 15, 15, 15, 15, 15, 15>>}

\* 0x0000AAAA0000100080000080AFAFAAAA (tests, test_128bit_uuid), 2^128 - 1
\* and 2^128.
FullShorts ==
  { <<10, 10, 10, 10, 0, 0, 0, 0, 1, 0, 0, 0, 8, 0, 0, 0,
      0, 0, 8, 0, 10, 15, 10, 15, 10, 10, 10, 10>>,
    [i \in 1..32 |-> 15],
    <<1>> \o [i \in 1..32 |-> 0] }

ShortUuids ==
  {StripZeros(d) : d \in SeqsUpTo(ShortDigits, MaxShortDigits)}
    \cup WideShorts \cup FullShorts

\* The three lengths of the expander, the length of the test of an invalid
\* one (tests, test_invalid_bit_length) and two more that it rejects.
BitLengths == {16, 32, 128, 64, 8, 0}

InitUuid ==
  /\ data = <<>>
  /\ packet = NoPacket
  /\ origin = "none"
  /\ ret = NoRet
  /\ arg_type = 0
  /\ arg_value = <<>>
  /\ arg_short \in ShortUuids
  /\ arg_bits \in BitLengths
  /\ NoRegistry
  /\ NoFraming

\* get_full_uuid(arg_short, arg_bits)
GetFullUuid ==
  /\ ret' = [op |-> "get_full_uuid", out |-> get_full_uuid(arg_short, arg_bits)]
  /\ UNCHANGED <<data, packet, origin, arg_type, arg_value, other_vars>>

\* str(...) of the UUID that the last call returned
UuidStr ==
  /\ ret.op = "get_full_uuid"
  /\ ret.out.kind = "value"
  /\ ret' = [op |-> "str", out |-> Value(UUID_str(ret.out.val))]
  /\ UNCHANGED <<data, packet, origin, arg_type, arg_value, other_vars>>

\* The registry's get_full_uuid(arg_short)
RegistryGetFullUuid ==
  /\ ret' = [op |-> "registry_get_full_uuid", out |-> registry_get_full_uuid(arg_short)]
  /\ UNCHANGED <<data, packet, origin, arg_type, arg_value, other_vars>>

NextUuid ==
  \/ GetFullUuid
  \/ UuidStr
  \/ RegistryGetFullUuid

SpecUuid == InitUuid /\ [][NextUuid]_vars

----------------------------------------------------------------------------
(* The identifier registry of bluetooth_sig_loader: three module-level     *)
(* names bound to dictionaries, update() that rebuilds and rebinds them,   *)
(* and a reader in another thread that loads a name and looks keys up.     *)
(* A dictionary is an object of the heap; a name holds a reference to it.  *)

MaxRefreshes == 1

BaseKeys == 1

\* The repository content after v - 1 pulls that brought changes has the
\* keys 1..BaseKeys + v - 1, each with a value that names v.
Keys == 1..(BaseKeys + MaxRefreshes)

NumEntries(v) == BaseKeys + v - 1

Mapping(v) == [k \in Keys |-> IF k <= NumEntries(v) THEN v ELSE 0]

\* {} : the value 0 stands for a key the dictionary does not have.
EmptyDict == [k \in Keys |-> 0]

\* The order in which update() rebinds the names.
MappingNames == <<"ad_types", "company_identifiers", "uuids">>

\* The dictionary a builder fills: a new one ({...} and result = {}).
build_target_in_place(bound, fresh) == bound

build_target(bound, fresh) == fresh

NoReader == [pc |-> "idle", ref |-> 0, seen |-> <<>>]

\* The module as imported: each name bound to its own dictionary, built
\* from the repository content at that time.
InitRegistry ==
  /\ data = <<>>
  /\ packet = NoPacket
  /\ origin = "none"
  /\ ret = NoRet
  /\ arg_type = 0
  /\ arg_value = <<>>
  /\ NoUuidCall
  /\ NoFraming
  /\ heap = <<Mapping(1), Mapping(1), Mapping(1)>>
  /\ bindings = [m \in {"ad_types", "company_identifiers", "uuids"} |->
                   CASE m = "ad_types" -> 1
                     [] m = "company_identifiers" -> 2
                     [] m = "uuids" -> 3]
  /\ refresh = [pc |-> "idle", version |-> 1, idx |-> 0, local |-> 0,
                n |-> 0, result |-> ""]
  /\ reader = NoReader

codec_vars ==
  <<data, packet, origin, ret, arg_type, arg_value, arg_short, arg_bits, frame>>

\* update(): the repository directory is missing; it is cloned and update
\* returns True with no name rebound.
UpdateRepoMissing ==
  /\ refresh.pc = "idle"
  /\ refresh.result # "True: cloned"
  /\ refresh' = [refresh EXCEPT !.result = "True: cloned"]
  /\ UNCHANGED <<codec_vars, heap, bindings, reader>>

\* update(): git pull brings nothing new; update returns False.
UpdateUpToDate ==
  /\ refresh.pc = "idle"
  /\ refresh.result # "False"
  /\ refresh' = [refresh EXCEPT !.result = "False"]
  /\ UNCHANGED <<codec_vars, heap, bindings, reader>>

\* update(): git pull brings a new commit; the rebuilding starts with
\* ad_types.
UpdatePulled ==
  /\ refresh.pc = "idle"
  /\ refresh.version <= MaxRefreshes
  /\ refresh' = [pc |-> "build", version |-> refresh.version + 1, idx |-> 1,
                 local |-> 0, n |-> 0, result |-> ""]
  /\ UNCHANGED <<codec_vars, heap, bindings, reader>>

\* get_ad_types(), get_company_identifiers() or get_uuids() starts: the
\* dictionary that it will fill.
BuildStart ==
  /\ refresh.pc = "build"
  /\ heap' = Append(heap, EmptyDict)
  /\ refresh' = [refresh EXCEPT
                   !.pc = "insert",
                   !.local = build_target(bindings[MappingNames[refresh.idx]],
                                          Len(heap) + 1),
                   !.n = 0]
  /\ UNCHANGED <<codec_vars, bindings, reader>>

\* The builder stores the next entry.
BuildEntry ==
  /\ refresh.pc = "insert"
  /\ refresh.n < NumEntries(refresh.version)
  /\ heap' = [heap EXCEPT ![refresh.local][refresh.n + 1] = refresh.version]
  /\ refresh' = [refresh EXCEPT !.n = refresh.n + 1]
  /\ UNCHANGED <<codec_vars, bindings, reader>>

\* The builder raises (a file that cannot be read or parsed): update ends
\* with the names bound so far.
BuildRaises ==
  /\ refresh.pc = "insert"
  /\ refresh.n < NumEntries(refresh.version)
  /\ refresh' = [refresh EXCEPT !.pc = "idle", !.idx = 0, !.local = 0,
                                !.n = 0, !.result = "raised"]
  /\ UNCHANGED <<codec_vars, heap, bindings, reader>>

\* The builder returns and the name is bound to what it returned; after
\* uuids, update returns True.
Rebind ==
  /\ refresh.pc = "insert"
  /\ refresh.n = NumEntries(refresh.version)
  /\ bindings' = [bindings EXCEPT ![MappingNames[refresh.idx]] = refresh.local]
  /\ refresh' = IF refresh.idx < Len(MappingNames)
                THEN [refresh EXCEPT !.pc = "build", !.idx = refresh.idx + 1,
                                     !.local = 0, !.n = 0]
                ELSE [refresh EXCEPT !.pc = "idle", !.idx = 0, !.local = 0,
                                     !.n = 0, !.result = "True"]
  /\ UNCHANGED <<codec_vars, heap, reader>>

\* A reader loads one of the names: it holds the dictionary bound to it at
\* that moment.
ReaderLoad(m) ==
  /\ reader.pc = "idle"
  /\ reader' = [pc |-> "holding", ref |-> bindings[m], seen |-> EmptyDict]
  /\ UNCHANGED <<codec_vars, heap, bindings, refresh>>

\* The reader looks a key up in the dictionary it holds; seen records the
\* value, -1 for a key that is not there.
ReaderLookup(k) ==
  /\ reader.pc = "holding"
  /\ reader.seen[k] = 0
  /\ reader' = [reader EXCEPT
                  !.seen[k] = IF heap[reader.ref][k] = 0 THEN -1
                              ELSE heap[reader.ref][k]]
  /\ UNCHANGED <<codec_vars, heap, bindings, refresh>>

\* The reader lets go of the dictionary.
ReaderDrop ==
  /\ reader.pc = "holding"
  /\ reader' = NoReader
  /\ UNCHANGED <<codec_vars, heap, bindings, refresh>>

NextRegistry ==
  \/ UpdateRepoMissing
  \/ UpdateUpToDate
  \/ UpdatePulled
  \/ BuildStart
  \/ BuildEntry
  \/ BuildRaises
  \/ Rebind
  \/ \E m \in {"ad_types", "company_identifiers", "uuids"} : ReaderLoad(m)
  \/ \E k \in Keys : ReaderLookup(k)
  \/ ReaderDrop

SpecRegistry == InitRegistry /\ [][NextRegistry]_vars

----------------------------------------------------------------------------
(* The generator of from_bytes, one statement at a time: frame.rest is the *)
(* argument of the current call of iterate_ad_structures, frame.yielded    *)
(* what list() has collected so far.                                       *)

InitFraming ==
  /\ data \in ReceivedBuffers
  /\ packet = NoPacket
  /\ origin = "none"
  /\ ret = NoRet
  /\ arg_type = 0
  /\ arg_value = <<>>
  /\ NoUuidCall
  /\ NoRegistry
  /\ frame = [pc |-> "call", rest |-> data, yielded |-> <<>>]

framing_unchanged ==
  <<data, packet, origin, ret, arg_type, arg_value,
    arg_short, arg_bits, heap, bindings, refresh, reader>>

\* if not data: return
ReturnOnEmpty ==
  /\ frame.pc = "call"
  /\ frame.rest = <<>>
  /\ frame' = [frame EXCEPT !.pc = "returned"]
  /\ UNCHANGED framing_unchanged

\* length = data[0]; if not length: return
ReturnOnZero ==
  /\ frame.pc = "call"
  /\ frame.rest # <<>>
  /\ frame.rest[1] = 0
  /\ frame' = [frame EXCEPT !.pc = "returned"]
  /\ UNCHANGED framing_unchanged

\* ad_type = data[1] with one byte left
RaiseIndexError ==
  /\ frame.pc = "call"
  /\ Len(frame.rest) = 1
  /\ frame.rest[1] # 0
  /\ frame' = [frame EXCEPT !.pc = "raised"]
  /\ UNCHANGED framing_unchanged

\* yield AdStruct(length=length, ad_type=ad_type, value=data[2 : length + 1])
Yield ==
  /\ frame.pc = "call"
  /\ Len(frame.rest) >= 2
  /\ frame.rest[1] # 0
  /\ frame' = [frame EXCEPT
                 !.pc = "yielded",
                 !.yielded = Append(frame.yielded,
                   AdStruct(frame.rest[1], frame.rest[2],
                            PySlice(frame.rest, 2, frame.rest[1] + 1)))]
  /\ UNCHANGED framing_unchanged

\* yield from iterate_ad_structures(data[length + 1 :])
Recurse ==
  /\ frame.pc = "yielded"
  /\ frame' = [frame EXCEPT !.pc = "call",
                            !.rest = remaining(frame.rest, frame.rest[1])]
  /\ UNCHANGED framing_unchanged

NextFraming ==
  \/ ReturnOnEmpty
  \/ ReturnOnZero
  \/ RaiseIndexError
  \/ Yield
  \/ Recurse

\* list() drives the generator to its end: a statement that can run, runs.
SpecFraming == InitFraming /\ [][NextFraming]_vars /\ WF_vars(NextFraming)

----------------------------------------------------------------------------
(* The framing rule as the specification states it, by offsets into the    *)
(* buffer (0-based): o_0 = 0, o_(k+1) = o_k + B[o_k] + 1.                  *)

RECURSIVE Offset(_, _)
Offset(B, k) ==
  IF k = 0 THEN 0
  ELSE LET o == Offset(B, k - 1)
       IN  IF o < Len(B) THEN o + B[o + 1] + 1 ELSE o

\* The k-th boundary is inside the buffer and holds a non-zero length byte.
Live(B, k) == Offset(B, k) < Len(B) /\ B[Offset(B, k) + 1] # 0

\* The number of structures the rule emits: the first k that is not live.
NumFramed(B) ==
  CHOOSE n \in 0..Len(B) : ~Live(B, n) /\ \A k \in 0..(n - 1) : Live(B, k)

\* Framing stopped at a zero length byte at a structure boundary.
StopsAtZero(B) == Offset(B, NumFramed(B)) < Len(B)

\* The bytes B[a .. b] (0-based, inclusive) that exist in the buffer.
Existing(B, a, b) ==
  [i \in 1..Max(0, Min(b, Len(B) - 1) - a + 1) |-> B[a + i]]

Consistent(s) == s.length = 1 + Len(s.value)

AllConsistent(p) == \A i \in 1..Len(p.ad_structs) : Consistent(p.ad_structs[i])

Parsed == origin = "from_bytes"

----------------------------------------------------------------------------
(* C1: re-encoding a packet parsed from a buffer B whose structures all    *)
(* have length = 1 + len(value) reproduces B byte for byte.                *)

\* C1 as claimed: for every such buffer, also one holding a zero length
\* byte at a structure boundary or bytes after it.
C1_RoundTripAnyBuffer ==
  (ret.op = "bytes" /\ Parsed /\ AllConsistent(packet))
    => ret.out = Value(data)

\* C1 as amended: bytes(AdPacket.from_bytes(B)) = B when every structure
\* has length = 1 + len(value) and framing did not stop at a zero length
\* byte, that is when it consumed the buffer to its end.
C1_RoundTripUnlessZero ==
  (ret.op = "bytes" /\ Parsed /\ AllConsistent(packet) /\ ~StopsAtZero(data))
    => ret.out = Value(data)

C1_Witness ==
  /\ ret.op = "bytes"
  /\ Parsed
  /\ Len(packet.ad_structs) >= 2
  /\ AllConsistent(packet)
  /\ ~StopsAtZero(data)
  /\ packet.ad_structs[1].ad_type # packet.ad_structs[1].length
  /\ ret.out = Value(data)

----------------------------------------------------------------------------
(* C2: AdPacket.from_bytes never raises, whatever the buffer, also when    *)
(* the buffer ends right after a non-zero length byte.                     *)

C2_FromBytesNeverRaises ==
  ret.op = "from_bytes" => ret.out.kind = "value"

----------------------------------------------------------------------------
(* C3: from_bytes emits, in wire order, one structure for every boundary   *)
(* o_k that is inside the buffer and holds a non-zero length byte, with    *)
(* length = B[o_k], ad_type = B[o_k + 1] and value = the bytes             *)
(* B[o_k + 2 .. o_k + length] that exist.                                  *)

FollowsOffsetRule(B, ss) ==
  /\ Len(ss) = NumFramed(B)
  /\ \A k \in 0..(Len(ss) - 1) :
       LET o == Offset(B, k) IN
         /\ ss[k + 1].length = B[o + 1]
         /\ o + 1 < Len(B) => ss[k + 1].ad_type = B[o + 2]
         /\ ss[k + 1].value = Existing(B, o + 2, o + B[o + 1])

C3_OffsetRule ==
  ret.op = "from_bytes"
    => ret.out.kind = "value" /\ FollowsOffsetRule(data, ret.out.val.ad_structs)

\* What the code does keep of C3: whenever from_bytes returns, its
\* structures are those of the offset rule.
C3_OffsetRuleWhenReturned ==
  (ret.op = "from_bytes" /\ ret.out.kind = "value")
    => FollowsOffsetRule(data, ret.out.val.ad_structs)

----------------------------------------------------------------------------
(* C4: framing stops at the first zero length byte at a structure          *)
(* boundary: from_bytes returns exactly the structures before it, which    *)
(* re-encode to the bytes before it, and none for it or for a later byte;  *)
(* a buffer that starts with 0x00 gives no structure.                      *)

C4_StopsAtZeroLength ==
  (ret.op = "from_bytes" /\ StopsAtZero(data))
    => /\ ret.out.kind = "value"
       /\ Len(ret.out.val.ad_structs) = NumFramed(data)
       /\ AdPacket_bytes(ret.out.val)
            = Value(PySlice(data, 0, Offset(data, NumFramed(data))))
       /\ data[1] = 0 => ret.out.val.ad_structs = <<>>

C4_Witness ==
  /\ ret.op = "from_bytes"
  /\ StopsAtZero(data)
  /\ Len(data) = 5
  /\ ret.out.kind = "value"
  /\ Len(ret.out.val.ad_structs) = 1
  /\ data[4] = 0
  /\ data[5] # 0

\* The buffer of the specification's example, [0x00, 0x01, 0x02].
C4_WitnessLeadingZero ==
  ret.op = "from_bytes" /\ data = <<0, 1, 2>> /\ ret.out = Value(AdPacket(<<>>))

----------------------------------------------------------------------------
(* C5: for a constructed packet P whose structures all have                *)
(* length = 1 + len(value), length in 1..255 and ad_type in 0..255,        *)
(* AdPacket.from_bytes(bytes(P)) equals P.                                 *)

InRange(p) ==
  \A i \in 1..Len(p.ad_structs) :
    p.ad_structs[i].length \in 1..255 /\ p.ad_structs[i].ad_type \in 0..255

C5_ParseOfBytes ==
  (ret.op = "reparse" /\ origin = "constructed"
     /\ AllConsistent(packet) /\ InRange(packet))
    => ret.out = Value(packet)

C5_Witness ==
  /\ ret.op = "reparse"
  /\ origin = "constructed"
  /\ Len(packet.ad_structs) = 2
  /\ AllConsistent(packet)
  /\ InRange(packet)
  /\ packet.ad_structs[1] # packet.ad_structs[2]
  /\ \E i \in 1..Len(packet.ad_structs[2].value) :
       packet.ad_structs[2].value[i] = 0
  /\ ret.out = Value(packet)

----------------------------------------------------------------------------
(* C6: AdPacket.name is the UTF-8 text of the first Complete Local Name    *)
(* (0x09) structure if there is one, else of the first Shortened Local     *)
(* Name (0x08) structure, else absent.                                     *)

HasType(p, t) == \E i \in 1..Len(p.ad_structs) : p.ad_structs[i].ad_type = t

FirstOfType(p, t) ==
  p.ad_structs[CHOOSE i \in 1..Len(p.ad_structs) :
                 /\ p.ad_structs[i].ad_type = t
                 /\ \A j \in 1..(i - 1) : p.ad_structs[j].ad_type # t]

\* The text the claim expects for a structure whose value is valid UTF-8.
TextOrAbsent(p, t, out) ==
  decode_str(FirstOfType(p, t).value).kind = "value"
    => out = decode_str(FirstOfType(p, t).value)

C6_Name ==
  ret.op = "name"
    => IF HasType(packet, 9) THEN TextOrAbsent(packet, 9, ret.out)
       ELSE IF HasType(packet, 8) THEN TextOrAbsent(packet, 8, ret.out)
       ELSE ret.out = PyNone

----------------------------------------------------------------------------
(* C7: for the types Shortened Local Name (0x08), Complete Local Name      *)
(* (0x09) and URI (0x24) and a value that is valid UTF-8, decode_ad_struct *)
(* returns the value decoded as UTF-8 text.                                *)

TextTypes == {8, 9, 36}

C7_TextTypesDecode ==
  (ret.op = "decode_ad_struct" /\ arg_type \in TextTypes
     /\ decode_str(arg_value).kind = "value")
    => ret.out = decode_str(arg_value)

----------------------------------------------------------------------------
(* C8: decoding a text-type structure whose value is not valid UTF-8       *)
(* fails with a decode error that reaches the caller.                      *)

C8_InvalidTextRaises ==
  (ret.op = "decode_ad_struct" /\ arg_type \in TextTypes
     /\ decode_str(arg_value).kind = "raise")
    => ret.out = Raise("UnicodeDecodeError")

----------------------------------------------------------------------------
(* C9: AdPacket.uuids holds the UUIDs of the UUID-list structures and      *)
(* then those of the service-data structures; nothing is deduplicated.     *)

IsListStruct(s) == s.ad_type \in {2, 3, 4, 5, 6, 7, 20, 21, 31}

IsServiceStruct(s) == s.ad_type \in {22, 32, 33}

\* The UUIDs of one structure, by kind.
StructUuids(s) ==
  IF IsListStruct(s) THEN list_uuids(s).val
  ELSE IF IsServiceStruct(s) THEN service_uuid(s).val
  ELSE <<>>

\* The position of a type in the order 0x02, 0x03, 0x04, 0x05, 0x06, 0x07,
\* 0x14, 0x1F, 0x15 of the lists, or 0x16, 0x20, 0x21 of the service data.
TypeRank(t) ==
  CASE t = 2 -> 1 [] t = 3 -> 2 [] t = 4 -> 3 [] t = 5 -> 4 [] t = 6 -> 5
    [] t = 7 -> 6 [] t = 20 -> 7 [] t = 31 -> 8 [] t = 21 -> 9
    [] t = 22 -> 1 [] t = 32 -> 2 [] t = 33 -> 3

\* The indices in I ordered by the rank of their structure's type, and by
\* wire position within one type.
RECURSIVE ByTypeThenWire(_, _)
ByTypeThenWire(ss, I) ==
  IF I = {} THEN <<>>
  ELSE LET i == CHOOSE x \in I : \A y \in I :
                  \/ TypeRank(ss[x].ad_type) < TypeRank(ss[y].ad_type)
                  \/ /\ TypeRank(ss[x].ad_type) = TypeRank(ss[y].ad_type)
                     /\ x <= y
       IN  <<i>> \o ByTypeThenWire(ss, I \ {i})

\* The indices in I in wire order.
RECURSIVE InWireOrder(_)
InWireOrder(I) ==
  IF I = {} THEN <<>>
  ELSE LET i == CHOOSE x \in I : \A y \in I : x <= y
       IN  <<i>> \o InWireOrder(I \ {i})

UuidsAt(ss, idx) == Flatten([k \in 1..Len(idx) |-> StructUuids(ss[idx[k]])])

ListIdx(ss) == {i \in 1..Len(ss) : IsListStruct(ss[i])}

ServiceIdx(ss) == {i \in 1..Len(ss) : IsServiceStruct(ss[i])}

RECURSIVE UuidCount(_)
UuidCount(ss) ==
  IF ss = <<>> THEN 0 ELSE Len(StructUuids(Head(ss))) + UuidCount(Tail(ss))

\* C9 as claimed: the lists' UUIDs in wire order, then the service-data
\* UUIDs in wire order.
C9_WireOrder ==
  ret.op = "uuids"
    => ret.out = Value(UuidsAt(packet.ad_structs, InWireOrder(ListIdx(packet.ad_structs)))
                        \o UuidsAt(packet.ad_structs,
                                   InWireOrder(ServiceIdx(packet.ad_structs))))

\* C9 as amended: the lists' UUIDs grouped by AD type in the order 0x02,
\* 0x03, 0x04, 0x05, 0x06, 0x07, 0x14, 0x1F, 0x15 (wire order within one
\* type), then the service-data UUIDs grouped by type in the order 0x16,
\* 0x20, 0x21; nothing is deduplicated, so the length is the sum of the
\* list lengths plus the number of service-data structures.
C9_TypeOrder ==
  ret.op = "uuids"
    => /\ ret.out = Value(UuidsAt(packet.ad_structs,
                                  ByTypeThenWire(packet.ad_structs,
                                                 ListIdx(packet.ad_structs)))
                           \o UuidsAt(packet.ad_structs,
                                      ByTypeThenWire(packet.ad_structs,
                                                     ServiceIdx(packet.ad_structs))))
       /\ Len(ret.out.val) = UuidCount(packet.ad_structs)

C9_Witness ==
  /\ ret.op = "uuids"
  /\ Len(packet.ad_structs) = 2
  /\ packet.ad_structs[1].ad_type = 3
  /\ packet.ad_structs[2].ad_type = 2
  /\ Len(ret.out.val) = 3
  /\ ret.out.val[1] = ret.out.val[3]

----------------------------------------------------------------------------
(* C10: for a UUID-list type of element width w and a value whose length   *)
(* is a multiple of w/8, decode_uuid_list returns len(value)/(w/8) UUID    *)
(* strings, the i-th being the expansion of the i-th chunk read as a       *)
(* little-endian integer.                                                  *)

ListWidth(t) ==
  CASE t \in {2, 3, 20} -> 16 [] t \in {4, 5, 31} -> 32 [] t \in {6, 7, 21} -> 128

\* The two lower-case hexadecimal digits of every byte of a chunk, the
\* chunk's last byte first.
ChunkHex(c) ==
  Flatten([i \in 1..Len(c) |->
    <<HexLower[(c[Len(c) + 1 - i] \div 16) + 1], HexLower[(c[Len(c) + 1 - i] % 16) + 1]>>])

\* "-0000-1000-8000-00805f9b34fb"
BaseTail ==
  <<"-", "0", "0", "0", "0", "-", "1", "0", "0", "0", "-", "8", "0", "0", "0",
    "-", "0", "0", "8", "0", "5", "f", "9", "b", "3", "4", "f", "b">>

ExpandedString(w, c) ==
  LET h == ChunkHex(c) IN
    CASE w = 16 -> <<"0", "0", "0", "0">> \o h \o BaseTail
      [] w = 32 -> h \o BaseTail
      [] w = 128 -> SubSeq(h, 1, 8) \o <<"-">> \o SubSeq(h, 9, 12) \o <<"-">>
                      \o SubSeq(h, 13, 16) \o <<"-">> \o SubSeq(h, 17, 20)
                      \o <<"-">> \o SubSeq(h, 21, 32)

C10_UuidListChunks ==
  (ret.op = "decode_uuid_list" /\ Len(arg_value) % (ListWidth(arg_type) \div 8) = 0)
    => LET n == ListWidth(arg_type) \div 8 IN
         /\ ret.out.kind = "value"
         /\ Len(ret.out.val) = Len(arg_value) \div n
         /\ \A i \in 1..Len(ret.out.val) :
              ret.out.val[i]
                = ExpandedString(ListWidth(arg_type),
                                 SubSeq(arg_value, (i - 1) * n + 1, i * n))

C10_Witness ==
  /\ ret.op = "decode_uuid_list"
  /\ arg_type = 3
  /\ arg_value = <<65, 0, 195, 169>>
  /\ Len(ret.out.val) = 2
  /\ ret.out.val[1] = <<"0", "0", "0", "0", "0", "0", "4", "1">> \o BaseTail
  /\ ret.out.val[2] = <<"0", "0", "0", "0", "a", "9", "c", "3">> \o BaseTail

\* A list of two 128-bit UUIDs.
C10_WitnessWide ==
  /\ ret.op = "decode_uuid_list"
  /\ arg_type = 21
  /\ Len(arg_value) = 32
  /\ Len(ret.out.val) = 2

----------------------------------------------------------------------------
(* C11: when len(value) is no multiple of the element width w/8,           *)
(* decode_uuid_list drops the trailing partial bytes: it returns           *)
(* floor(len(value)/(w/8)) UUIDs, none of them made of the leftover bytes. *)

C11_PartialChunkDropped ==
  (ret.op = "decode_uuid_list" /\ Len(arg_value) % (ListWidth(arg_type) \div 8) # 0)
    => LET n == ListWidth(arg_type) \div 8 IN
         /\ ret.out.kind = "value"
         /\ Len(ret.out.val) = Len(arg_value) \div n
         /\ \A i \in 1..Len(ret.out.val) :
              ret.out.val[i]
                = ExpandedString(ListWidth(arg_type),
                                 SubSeq(arg_value, (i - 1) * n + 1, i * n))

\* What the code does with the leftover bytes: one more UUID, made of them
\* alone, so the list has ceil(len(value)/(w/8)) elements.
C11_PartialChunkDecoded ==
  (ret.op = "decode_uuid_list" /\ Len(arg_value) % (ListWidth(arg_type) \div 8) # 0)
    => LET n == ListWidth(arg_type) \div 8 IN
         /\ ret.out.kind = "value"
         /\ Len(ret.out.val) = Len(arg_value) \div n + 1

----------------------------------------------------------------------------
(* C12: get_full_uuid(s, bits) is, for bits = 16 and s in 0..0xFFFF, the   *)
(* UUID 0000SSSS-0000-1000-8000-00805f9b34fb (SSSS the four hexadecimal    *)
(* digits of s); for bits = 32 and s in 0..0xFFFFFFFF, the UUID            *)
(* SSSSSSSS-0000-1000-8000-00805f9b34fb; for bits = 128, the UUID whose    *)
(* integer value is s (a UUID has 128 bits: s below 2^128); for every      *)
(* other bits it raises ValueError.                                        *)

\* The digits of a numeral in lower case, zero-padded to width characters.
LowerPadded(n, width) ==
  [i \in 1..width |->
     IF i <= width - Len(n) THEN "0" ELSE HexLower[n[i - (width - Len(n))] + 1]]

C12_GetFullUuid ==
  /\ ret.op = "get_full_uuid" =>
       /\ arg_bits \notin {16, 32, 128} => ret.out = Raise("ValueError")
       /\ (arg_bits = 16 /\ Len(arg_short) <= 4) => ret.out.kind = "value"
       /\ (arg_bits = 32 /\ Len(arg_short) <= 8) => ret.out.kind = "value"
       /\ (arg_bits = 128 /\ Len(arg_short) <= 32) =>
            ret.out.kind = "value" /\ ret.out.val.int = arg_short
  /\ ret.op = "str" =>
       /\ (arg_bits = 16 /\ Len(arg_short) <= 4) =>
            ret.out.val = <<"0", "0", "0", "0">> \o LowerPadded(arg_short, 4) \o BaseTail
       /\ (arg_bits = 32 /\ Len(arg_short) <= 8) =>
            ret.out.val = LowerPadded(arg_short, 8) \o BaseTail

\* get_full_uuid(0xAAAA, 16) printed (tests, test_16bit_uuid).
C12_Witness ==
  /\ ret.op = "str"
  /\ arg_bits = 16
  /\ arg_short = <<10, 10, 10, 10>>
  /\ ret.out.val = <<"0", "0", "0", "0", "a", "a", "a", "a">> \o BaseTail

\* A 32-bit value below 2^16 and a rejected bit length.
C12_Witness32 ==
  /\ ret.op = "str"
  /\ arg_bits = 32
  /\ arg_short = <<10, 15>>
  /\ ret.out.val = <<"0", "0", "0", "0", "0", "0", "a", "f">> \o BaseTail

C12_WitnessRejected ==
  /\ ret.op = "get_full_uuid"
  /\ arg_bits = 64
  /\ ret.out = Raise("ValueError")

C12_Witness128 ==
  /\ ret.op = "get_full_uuid"
  /\ arg_bits = 128
  /\ Len(arg_short) = 32
  /\ ret.out.kind = "value"

----------------------------------------------------------------------------
(* C13: decode_service_data, for the element width w of the type (16, 32   *)
(* or 128), returns the UUID that is the expansion of the first w/8 bytes  *)
(* of value read as a little-endian integer, and as data the bytes after   *)
(* the first w/8; when value is shorter than w/8 bytes it does not raise   *)
(* and data is empty.                                                      *)

ServiceWidth(t) == CASE t = 22 -> 16 [] t = 32 -> 32 [] t = 33 -> 128

\* The first n bytes of v; bytes that v does not have count as zero, which
\* is what they contribute to a little-endian integer.
LowBytes(v, n) == [i \in 1..n |-> IF i <= Len(v) THEN v[i] ELSE 0]

C13_ServiceData ==
  ret.op = "decode_service_data"
    => LET n == ServiceWidth(arg_type) \div 8 IN
         /\ ret.out.kind = "value"
         /\ ret.out.val.uuid
              = ExpandedString(ServiceWidth(arg_type), LowBytes(arg_value, n))
         /\ Len(ret.out.val.data) = Max(0, Len(arg_value) - n)
         /\ \A i \in 1..Len(ret.out.val.data) :
              ret.out.val.data[i] = arg_value[n + i]
         /\ Len(arg_value) < n => ret.out.val.data = <<>>

\* A 32-bit service-data value of three bytes: no error, no data.
C13_Witness ==
  /\ ret.op = "decode_service_data"
  /\ arg_type = 32
  /\ arg_value = <<65, 195, 169>>
  /\ ret.out.val.uuid = <<"0", "0", "a", "9", "c", "3", "4", "1">> \o BaseTail
  /\ ret.out.val.data = <<>>

\* A 16-bit service-data value with two bytes of data after the UUID.
C13_WitnessData ==
  /\ ret.op = "decode_service_data"
  /\ arg_type = 22
  /\ arg_value = <<65, 195, 169, 65>>
  /\ ret.out.val.data = <<169, 65>>

----------------------------------------------------------------------------
(* C15: decode_flags(value) is the little-endian unsigned integer of value *)
(* seen as a bit set: the flag named for bit k (k in 0..4) is in the       *)
(* result exactly when bit k of that integer is set, and the bits 5 and    *)
(* above stay in the integer value of the result; no value is an error.    *)

\* Bit k of the little-endian integer of the bytes v.
BitOfBytes(v, k) ==
  /\ k \div 8 < Len(v)
  /\ (v[(k \div 8) + 1] \div (2 ^ (k % 8))) % 2 = 1

C15_Flags ==
  ret.op = "decode_flags"
    => /\ ret.out.kind = "value"
       /\ \A k \in 0..4 :
            Flags_contains(ret.out.val, FlagNames[k + 1]) <=> BitOfBytes(arg_value, k)
       /\ \A k \in 0..(8 * Len(arg_value) + 7) :
            numeral_bit(ret.out.val.flags, k) <=> BitOfBytes(arg_value, k)

\* 0xFF: the five named flags and the three bits above them.
C15_Witness ==
  /\ ret.op = "decode_flags"
  /\ arg_value = <<255>>
  /\ \A k \in 0..4 : Flags_contains(ret.out.val, FlagNames[k + 1])
  /\ ret.out.val.flags = <<15, 15>>

\* 0x05: LE limited discoverable and BR/EDR not supported, nothing else.
C15_WitnessTwoFlags ==
  /\ ret.op = "decode_flags"
  /\ arg_value = <<5>>
  /\ Flags_contains(ret.out.val, "BR_EDR_NOT_SUPPORTED")
  /\ ~Flags_contains(ret.out.val, "LE_GENERAL_DISCOVERABLE_MODE")

----------------------------------------------------------------------------
(* C16: decode_ad_struct returns None, and never raises, for every ad_type *)
(* that is no recognized AD type (999, 0x0B) and for every recognized type *)
(* that has no decoder (0x0A), whatever the value bytes are.               *)

\* The recognized types that the specification gives a decoder: flags, the
\* UUID lists, service data, the text types and manufacturer data.
TypesWithDecoder ==
  {1, 255} \cup {2, 3, 4, 5, 6, 7, 20, 21, 31} \cup {22, 32, 33} \cup {8, 9, 36}

C16_NoDecoderIsNone ==
  (ret.op = "decode_ad_struct" /\ arg_type \notin TypesWithDecoder)
    => ret.out = PyNone

\* An unrecognized code with a non-empty value.
C16_Witness ==
  /\ ret.op = "decode_ad_struct"
  /\ arg_type = 999
  /\ Len(arg_value) = 32
  /\ ret.out = PyNone

\* TX power level, a recognized type with no decoder.
C16_WitnessNoDecoder ==
  /\ ret.op = "decode_ad_struct"
  /\ arg_type = 10
  /\ arg_value = <<0, 65>>
  /\ ret.out = PyNone

----------------------------------------------------------------------------
(* C14: manufacturer_id is the company identifier of the first             *)
(* Manufacturer Specific Data (0xFF) structure in wire order, that is the  *)
(* first two bytes of its value read as a little-endian 16-bit integer,    *)
(* and absent when the packet has no such structure.                       *)

\* Byte i of v, zero where v has no such byte.
ByteAt(v, i) == IF i <= Len(v) THEN v[i] ELSE 0

C14_ManufacturerId ==
  ret.op = "manufacturer_id"
    => IF HasType(packet, 255)
       THEN LET v == FirstOfType(packet, 255).value
            IN  ret.out = Value(ByteAt(v, 1) + 256 * ByteAt(v, 2))
       ELSE ret.out = PyNone

\* Two manufacturer structures with different identifiers: the first wins.
C14_Witness ==
  /\ ret.op = "manufacturer_id"
  /\ Len(packet.ad_structs) = 2
  /\ packet.ad_structs[1].value = <<52, 18, 1>>
  /\ packet.ad_structs[2].value = <<1, 0>>
  /\ packet.ad_structs[2].ad_type = 255
  /\ ret.out = Value(4660)

\* The packet of the test, parsed from its buffer.
C14_WitnessParsed ==
  /\ ret.op = "manufacturer_id"
  /\ origin = "from_bytes"
  /\ ret.out = Value(4660)

\* No manufacturer structure in a packet that has structures.
C14_WitnessAbsent ==
  /\ ret.op = "manufacturer_id"
  /\ packet.ad_structs # <<>>
  /\ ret.out = PyNone

----------------------------------------------------------------------------
(* C17: get_all(t) is exactly the subsequence of ad_structs whose ad_type  *)
(* is t, in wire order; get(t) is the first element of that subsequence,   *)
(* or absent when it is empty.                                             *)

\* The indices of the structures of type t, in wire order.
IdxOfType(ss, t) == InWireOrder({i \in 1..Len(ss) : ss[i].ad_type = t})

C17_GetAndGetAll ==
  /\ ret.op = "get_all" =>
       LET idx == IdxOfType(packet.ad_structs, ret.arg) IN
         /\ ret.out.kind = "value"
         /\ Len(ret.out.val) = Len(idx)
         /\ \A k \in 1..Len(idx) : ret.out.val[k] = packet.ad_structs[idx[k]]
  /\ ret.op = "get" =>
       LET idx == IdxOfType(packet.ad_structs, ret.arg) IN
         IF idx = <<>> THEN ret.out = PyNone
         ELSE ret.out = Value(packet.ad_structs[idx[1]])

\* Two different structures of the type, returned in wire order.
C17_Witness ==
  /\ ret.op = "get_all"
  /\ Len(packet.ad_structs) = 2
  /\ packet.ad_structs[1] # packet.ad_structs[2]
  /\ ret.out.val = packet.ad_structs

\* One structure of the type after a structure of another type.
C17_WitnessSecond ==
  /\ ret.op = "get_all"
  /\ Len(packet.ad_structs) = 2
  /\ packet.ad_structs[1].ad_type # ret.arg
  /\ ret.out.val = <<packet.ad_structs[2]>>

\* get picks the first of two different structures of the type.
C17_WitnessGet ==
  /\ ret.op = "get"
  /\ Len(packet.ad_structs) = 2
  /\ packet.ad_structs[1].ad_type = packet.ad_structs[2].ad_type
  /\ packet.ad_structs[1] # packet.ad_structs[2]
  /\ ret.out = Value(packet.ad_structs[1])

C17_WitnessAbsent ==
  /\ ret.op = "get"
  /\ packet.ad_structs # <<>>
  /\ ret.out = PyNone

----------------------------------------------------------------------------
(* C18: bytes(AdStruct) is the stored length byte, then the ad_type byte,  *)
(* then the value bytes; the length byte is the stored one, not one        *)
(* derived from the value, so a structure with length 5 and a one-byte     *)
(* value encodes to three bytes that start with 0x05.                      *)

C18_StructBytes ==
  ret.op = "struct_bytes"
    => LET s == packet.ad_structs[ret.arg] IN
         (IsByte(s.length) /\ IsByte(s.ad_type))
           => /\ ret.out.kind = "value"
              /\ Len(ret.out.val) = 2 + Len(s.value)
              /\ ret.out.val[1] = s.length
              /\ ret.out.val[2] = s.ad_type
              /\ \A k \in 1..Len(s.value) : ret.out.val[2 + k] = s.value[k]

\* AdStruct(length=5, ad_type=FLAGS, value=bytes([0x07])) (tests,
\* test_bytes_conversion).
C18_Witness ==
  /\ ret.op = "struct_bytes"
  /\ packet.ad_structs[ret.arg] = AdStruct(5, 1, <<7>>)
  /\ ret.out = Value(<<5, 1, 7>>)

----------------------------------------------------------------------------
(* C19: decode failures are local. from_bytes evaluates no structure's     *)
(* decoded value, so a packet that holds a structure with a malformed      *)
(* payload is still framed completely, and decoded of any sibling is the   *)
(* sibling's own decoded value.                                            *)

\* A name or URI whose value is no UTF-8 text, or a UUID list whose value
\* is no whole number of elements.
Malformed(s) ==
  \/ s.ad_type \in {8, 9, 36} /\ decode_str(s.value).kind = "raise"
  \/ IsListStruct(s) /\ Len(s.value) % (ListWidth(s.ad_type) \div 8) # 0

HasMalformed(ss) == \E j \in 1..Len(ss) : Malformed(ss[j])

\* Every structure the offset rule frames has its type byte in the buffer.
TypeBytesPresent(B) ==
  \A k \in 0..(NumFramed(B) - 1) : Offset(B, k) + 1 < Len(B)

\* The structures the offset rule frames.
Framed(B) ==
  [k \in 1..NumFramed(B) |->
     LET o == Offset(B, k - 1)
     IN  AdStruct(B[o + 1], B[o + 2], Existing(B, o + 2, o + B[o + 1]))]

C19_WitnessFramed ==
  /\ ret.op = "from_bytes"
  /\ data = <<2, 9, 255, 2, 1, 6>>
  /\ ret.out = Value(AdPacket(<<AdStruct(2, 9, <<255>>), AdStruct(2, 1, <<6>>)>>))

\* A manufacturer sibling of a malformed name in a constructed packet.
C19_WitnessConstructed ==
  /\ ret.op = "decoded"
  /\ origin = "constructed"
  /\ packet.ad_structs[1] = AdStruct(2, 9, <<255>>)
  /\ ret.arg = 2
  /\ ret.out.kind = "value"
  /\ ret.out.val = [company_identifier |-> 4660, data |-> <<1>>]

----------------------------------------------------------------------------
(* C20: a reader that runs concurrently with update() never observes a     *)
(* partially updated mapping: each of ad_types, company_identifiers and    *)
(* uuids that it reads is entirely the mapping of before the refresh or    *)
(* entirely the mapping of after it, because the refresh binds the name to *)
(* a completely built new mapping and never changes a bound one in place.  *)

Versions == 1..(MaxRefreshes + 1)

\* What the reader has seen so far is what the mapping of version v holds.
SeenIsOf(seen, v) ==
  \A k \in Keys :
    seen[k] # 0 => seen[k] = (IF Mapping(v)[k] = 0 THEN -1 ELSE Mapping(v)[k])

C20_NoPartialMapping ==
  refresh # <<>>
    => /\ \A m \in DOMAIN bindings :
            \E v \in Versions :
              /\ heap[bindings[m]] = Mapping(v)
              /\ v <= refresh.version
       /\ reader.pc = "holding" =>
            /\ \E v \in Versions : heap[reader.ref] = Mapping(v)
            /\ \E v \in Versions : SeenIsOf(reader.seen, v)

\* The reader still holds, and has read to the end, the first ad_types
\* mapping, while update() has rebound ad_types and is halfway through
\* building the next mapping.
C20_Witness ==
  /\ refresh # <<>>
  /\ refresh.pc = "insert"
  /\ refresh.idx = 2
  /\ refresh.n = 1
  /\ heap[bindings["ad_types"]] = Mapping(2)
  /\ reader.pc = "holding"
  /\ reader.ref = 1
  /\ \A k \in Keys : reader.seen[k] # 0
  /\ SeenIsOf(reader.seen, 1)

\* The reader loaded ad_types after its rebinding and sees the new mapping
\* whole, while uuids is still the old one.
C20_WitnessNew ==
  /\ refresh # <<>>
  /\ refresh.pc = "insert"
  /\ refresh.idx = 3
  /\ reader.pc = "holding"
  /\ reader.ref = bindings["ad_types"]
  /\ \A k \in Keys : reader.seen[k] # 0
  /\ SeenIsOf(reader.seen, 2)
  /\ heap[bindings["uuids"]] = Mapping(1)

----------------------------------------------------------------------------
(* C21: in every packet that from_bytes returns, every structure has a     *)
(* length in 1..255 and at most length - 1 bytes of value, and every       *)
(* structure but the last has exactly length - 1 bytes of value: only the  *)
(* last structure can have a value shorter than declared, and its length   *)
(* is the declared one, not a corrected one.                               *)

C21_StructureInvariants ==
  (ret.op = "from_bytes" /\ ret.out.kind = "value")
    => LET ss == ret.out.val.ad_structs IN
         \A i \in 1..Len(ss) :
           /\ ss[i].length \in 1..255
           /\ Len(ss[i].value) <= ss[i].length - 1
           /\ i < Len(ss) => Len(ss[i].value) = ss[i].length - 1
           /\ ss[i].length = data[Offset(data, i - 1) + 1]

\* Two structures, the value of the last cut short by the end of the
\* buffer and its declared length kept.
C21_Witness ==
  /\ ret.op = "from_bytes"
  /\ ret.out.kind = "value"
  /\ Len(ret.out.val.ad_structs) >= 2
  /\ LET last == ret.out.val.ad_structs[Len(ret.out.val.ad_structs)]
     IN  Len(last.value) < last.length - 1

----------------------------------------------------------------------------
(* C22: framing terminates on every finite buffer: each step either stops  *)
(* or consumes at least 2 bytes (length + 1 with length >= 1), so          *)
(* from_bytes emits a finite sequence of at most ceil(len(data)/2)         *)
(* structures.                                                             *)

FramingDone == frame.pc \in {"returned", "raised"}

\* The count bound, and the agreement of the stepped generator with
\* from_bytes once it has ended.
FramingBounded ==
  /\ Len(frame.yielded) <= (Len(data) + 1) \div 2
  /\ frame.pc = "returned" => from_bytes(data) = Value(AdPacket(frame.yielded))
  /\ frame.pc = "raised" => from_bytes(data) = Raise("IndexError")

\* A call that goes on goes on with at least 2 bytes fewer.
ConsumesTwo ==
  frame'.rest # frame.rest => Len(frame'.rest) <= Len(frame.rest) - 2

C22_FramingTerminates ==
  /\ []FramingBounded
  /\ [][ConsumesTwo]_vars
  /\ <>FramingDone

\* Four bytes framed into two structures, the most the bound allows.
C22_Witness ==
  /\ frame.pc = "returned"
  /\ Len(data) = 4
  /\ Len(frame.yielded) = 2
  /\ frame.rest = <<>>

\* A buffer of the tests framed to its end in three structures.
C22_WitnessLong ==
  /\ frame.pc = "returned"
  /\ Len(data) = 18
  /\ Len(frame.yielded) = 3

----------------------------------------------------------------------------
(* C23: the registry's derivation of the full UUID agrees with the         *)
(* parser's: for every 16-bit short UUID s in 0..0xFFFF, the registry      *)
(* get_full_uuid(s) is the UUID that the parser's get_full_uuid(s, 16)     *)
(* returns, 0000SSSS-0000-1000-8000-00805f9b34fb.                          *)

C23_RegistryAgreesWithParser ==
  (ret.op = "registry_get_full_uuid" /\ Len(arg_short) <= 4)
    => /\ ret.out.kind = "value"
       /\ ret.out = get_full_uuid(arg_short, 16)
       /\ UUID_str(ret.out.val)
            = <<"0", "0", "0", "0">> \o LowerPadded(arg_short, 4) \o BaseTail

\* What the registry's code returns: the base UUID with its bytes 12 and 13
\* (5f 9b) replaced by the low byte and the high byte of s.
C23_RegistryWritesLastGroup ==
  (ret.op = "registry_get_full_uuid" /\ Len(arg_short) <= 4)
    => /\ ret.out.kind = "value"
       /\ UUID_str(ret.out.val)
            = <<"0", "0", "0", "0", "0", "0", "0", "0", "-",
                "0", "0", "0", "0", "-", "1", "0", "0", "0", "-",
                "8", "0", "0", "0", "-", "0", "0", "8", "0">>
                \o SubSeq(LowerPadded(arg_short, 4), 3, 4)
                \o SubSeq(LowerPadded(arg_short, 4), 1, 2)
                \o <<"3", "4", "f", "b">>

====
